---- MODULE Spec2Model ----
(***************************************************************************)
(* A model of PyAPNs (src/apns.py): the APNs facade and its cached         *)
(* connections, the lazily connected APNsConnection with its read and      *)
(* write primitives, the Payload encoding and its size check, the gateway  *)
(* notification frame, and the feedback stream decoder items().            *)
(***************************************************************************)
EXTENDS Integers, Sequences, FiniteSets, TLC

VARIABLES
    _feedback_connection,   \* APNs._feedback_connection: 0 (None) or an instance
    _gateway_connection,    \* APNs._gateway_connection: 0 (None) or an instance
    first,                  \* history: role -> instance its accessor returned first
    conn,                   \* instance -> the APNsConnection's fields
    nsock,                  \* number of sockets created so far (socket identities)
    CHECK_CLOSED_SOCKET,    \* module flag read from the environment at import
    last,                   \* the outcome of the last call
    prev,                   \* history: a summary of the call before it
    recs,                   \* feedback: the records the peer sends
    frag,                   \* feedback: the incomplete bytes sent after them
    pos,                    \* feedback: bytes of the stream delivered so far
    buff,                   \* items(): buff
    data,                   \* _chunks(): the chunk of the last read
    pc,                     \* items(): position of the generator
    out,                    \* items(): the pairs yielded so far
    got,                    \* history: the bytes this items() has received
    payload,                \* the Payload under construction / constructed
    sent,                   \* the notification frame built last
    codec                   \* a number, its packed form and that unpacked

vars == <<_feedback_connection, _gateway_connection, first, conn, nsock,
          CHECK_CLOSED_SOCKET, last, prev, recs, frag, pos, buff, data, pc, out,
          got, payload, sent, codec>>

facadeVars == <<_feedback_connection, _gateway_connection, first>>
feedVars == <<recs, frag, pos, buff, data, pc, out, got>>
payVars == <<payload, sent>>
codecVars == <<codec>>

\* ------------------------------------------------------------------ bounds

MaxSockets == 3        \* sockets one run may create
MaxInst == 3           \* connection instances one run may construct
MaxRecords == 2        \* feedback records in one stream
MaxTokenLen == 2       \* bytes of a device token in a feedback record

\* ------------------------------------------------------- small utilities

None == 0

Roles == {"gateway", "feedback"}

Min(a, b) == IF a < b THEN a ELSE b

\* s without its first n elements: the slice s[n:].
Drop(s, n) == SubSeq(s, n + 1, Len(s))

\* The slice s[a:b] (0-based, b excluded) of a sequence at least b long.
Slice(s, a, b) == SubSeq(s, a + 1, b)

\* --------------------------------------------------------- byte codecs

\* A little-endian packing.
packed_ushort_little_endian(num) == <<num % 256, num \div 256>>

\* APNs.packed_ushort_big_endian: pack('>H', num), for num in 0..65535.
packed_ushort_big_endian(num) == <<num \div 256, num % 256>>

\* APNs.unpacked_ushort_big_endian: unpack('>H', bytes)[0].
unpacked_ushort_big_endian(bytes) == bytes[1] * 256 + bytes[2]

\* A number of 0..4294967295 is kept as its two 16-bit halves, the number
\* being hi * 65536 + lo: the upper half of the range is beyond the model's
\* integers. U32(n) is that form of a number n below 2^31.
U32(n) == [hi |-> n \div 65536, lo |-> n % 65536]

\* A packing of the four bytes least significant byte first.
packed_uint_little_endian(num) ==
    <<num.lo % 256, num.lo \div 256, num.hi % 256, num.hi \div 256>>

\* APNs.packed_uint_big_endian: pack('>I', num).
packed_uint_big_endian(num) ==
    <<num.hi \div 256, num.hi % 256, num.lo \div 256, num.lo % 256>>

\* APNs.unpacked_uint_big_endian: unpack('>I', bytes)[0].
unpacked_uint_big_endian(bytes) ==
    [hi |-> bytes[1] * 256 + bytes[2], lo |-> bytes[3] * 256 + bytes[4]]

\* The characters 0-9a-f as ASCII codes.
HexDigits == <<48, 49, 50, 51, 52, 53, 54, 55, 56, 57,
               97, 98, 99, 100, 101, 102>>

\* binascii.b2a_hex: two lower-case hex digits per byte.
RECURSIVE b2a_hex(_)
b2a_hex(bytes) ==
    IF bytes = <<>> THEN <<>>
    ELSE <<HexDigits[(bytes[1] \div 16) + 1], HexDigits[(bytes[1] % 16) + 1]>>
         \o b2a_hex(Tail(bytes))

\* The value of one hex digit, upper or lower case.
HexValue(ch) ==
    IF ch >= 48 /\ ch <= 57 THEN ch - 48
    ELSE IF ch >= 97 /\ ch <= 102 THEN ch - 87
    ELSE ch - 55

\* binascii.a2b_hex on an even-length string of hex digits.
RECURSIVE a2b_hex(_)
a2b_hex(hex) ==
    IF hex = <<>> THEN <<>>
    ELSE <<HexValue(hex[1]) * 16 + HexValue(hex[2])>>
         \o a2b_hex(Tail(Tail(hex)))

\* datetime.utcfromtimestamp: the day since the epoch and the second of
\* that day. With t = 128 * q + r, r < 128, and 86400 = 128 * 675, the day
\* is q \div 675 and the second is 128 * (q % 675) + r.
utcfromtimestamp(t) ==
    LET q == (t.hi * 512) + (t.lo \div 128)
    IN [day |-> q \div 675, second |-> ((q % 675) * 128) + (t.lo % 128)]

\* ------------------------------------------------ APNsConnection (state)

\* APNsConnection.__init__: no socket, no TLS handle. open is the set of
\* sockets this connection created and that have not been closed; tmo is
\* whether a timeout is set on the TLS socket.
NewConnection(role) ==
    [role |-> role, _socket |-> None, _ssl |-> None, tmo |-> FALSE, open |-> {}]

\* The outcomes of establishing a connection after socket() succeeded: the
\* TCP connect fails, the TLS handshake fails, or both succeed.
ConnectOutcomes == {"ok", "connect_fail", "tls_fail"}

\* The outcomes of a read on the TLS socket. A read can time out only when a
\* timeout is set on the socket.
ReadOutcomes(tmo) ==
    {"data", "eof", "error"} \cup (IF tmo THEN {"timeout"} ELSE {})

WriteOutcomes == {"ok", "error"}

\* Rebinding self._socket drops the last reference to the socket it held.
\* Whether the runtime closes that socket at once (reference counting) or
\* leaves it open until a later collection is not fixed by the program:
\* both outcomes are possible.
Orphan(c) ==
    IF c._socket # None THEN {c.open, c.open \ {c._socket}} ELSE {c.open}

\* APNsConnection._connect, with m = [c |-> connection, n |-> sockets created].
\* The set of its possible results; ok says that no error was raised.
\* socket() itself may fail, before self._socket is assigned.
_connect(m) ==
    {[c |-> m.c, n |-> m.n, ok |-> FALSE]} \cup
    { LET id == m.n + 1
          c1 == [m.c EXCEPT !._socket = id, !.open = op \cup {id}]
      IN IF co = "ok"
         THEN [c |-> [c1 EXCEPT !._ssl = id, !.tmo = FALSE],
               n |-> id, ok |-> TRUE]
         ELSE [c |-> c1, n |-> id, ok |-> FALSE]
      : co \in ConnectOutcomes, op \in Orphan(m.c) }

\* A teardown that closes the socket and keeps the handles.
DisconnectNoReset(c) ==
    IF c._socket # None
    THEN [c EXCEPT !.open = c.open \ {c._socket}]
    ELSE c

\* APNsConnection._disconnect: close() (an error of close is ignored) and,
\* in the finally clause, both handles reset.
_disconnect(c) ==
    IF c._socket # None
    THEN [c EXCEPT !.open = c.open \ {c._socket},
                   !._socket = None, !._ssl = None, !.tmo = FALSE]
    ELSE c

\* A _connection that connects on every call.
ConnectionAlwaysConnects(m) == _connect(m)

\* APNsConnection._connection: connect only when there is no TLS handle.
_connection(m) ==
    IF m.c._ssl = None
    THEN _connect(m)
    ELSE {[c |-> m.c, n |-> m.n, ok |-> TRUE]}

\* The result of a read: val is "data" (a non-empty string), "empty" (''),
\* "timedout" (-1), "nodata" (0) or "error" (raised); used is the socket the
\* read was performed on, 0 when none was; held is the socket the connection
\* held when the call came to its return or to its teardown.
ReadResult(c, n, kind, val, used, held) ==
    [c |-> c, n |-> n, kind |-> kind, val |-> val, used |-> used,
     held |-> held]

\* An except clause that tears the connection down whatever the error, and
\* then returns the sentinel (or raises, without a timeout).
ReadHandlerTeardown(m, timeout, e, used) ==
    {ReadResult(_disconnect(m.c), m.n,
                IF timeout THEN "return" ELSE "raise",
                IF ~timeout THEN "error"
                ELSE IF e = "timeout" THEN "timedout" ELSE "nodata",
                used, m.c._socket)}

\* The except clause of read (lines 158-165), entered in state m with the
\* error e ("timeout" for 'The read operation timed out', else "error").
ReadHandler(m, timeout, e, used) ==
    IF ~timeout
    THEN {ReadResult(_disconnect(m.c), m.n, "raise", "error", used,
                     m.c._socket)}
    ELSE { IF ~b.ok
           THEN ReadResult(b.c, b.n, "raise", "error", used, b.c._socket)
           ELSE ReadResult([b.c EXCEPT !.tmo = FALSE], b.n, "return",
                           IF e = "timeout" THEN "timedout" ELSE "nodata",
                           used, b.c._socket)
           : b \in _connection(m) }

\* The try block of read (lines 154-157) once the connection a is there:
\* settimeout(timeout) when a timeout was given, then the read.
ReadTry(a, timeout) ==
    LET a1 == [a EXCEPT !.c.tmo = (timeout \/ a.c.tmo)]
    IN UNION { IF ro = "data"
               THEN {ReadResult(a1.c, a1.n, "return", "data", a1.c._ssl,
                                a1.c._socket)}
               ELSE IF ro = "eof"
               THEN {ReadResult(a1.c, a1.n, "return", "empty", a1.c._ssl,
                                a1.c._socket)}
               ELSE ReadHandler(a1, timeout, ro, a1.c._ssl)
               : ro \in ReadOutcomes(a1.c.tmo) }

\* APNsConnection.read(n, timeout): timeout is whether a timeout was given.
\* The set of its possible results.
read(m, timeout) ==
    UNION { IF ~a.ok
            THEN ReadHandler(a, timeout, "error", 0)
            ELSE ReadTry(a, timeout)
            : a \in _connection(m) }

\* A probe test that fails the write only when the probe returned data.
ProbeFailsOnData(val) == val = "data"

\* The test of line 170 on the probe's result: ret != -1.
ProbeFails(val) == val # "timedout"

\* The result of a write: probe is the result of the liveness probe ("off"
\* when CHECK_CLOSED_SOCKET is false, "raised" when the probe read raised);
\* stage is where the call ended; used is the socket the string was written
\* on (0 when none was); held is the socket the connection held when the
\* call came to its return or to its last teardown.
WriteResult(c, n, kind, val, used, held, probe, stage) ==
    [c |-> c, n |-> n, kind |-> kind, val |-> val, used |-> used,
     held |-> held, probe |-> probe, stage |-> stage]

\* The try block of write (lines 173-178).
WriteTry(m, probe) ==
    UNION { IF ~a.ok
            THEN {WriteResult(_disconnect(a.c), a.n, "raise", "error", 0,
                              a.c._socket, probe, "try")}
            ELSE {WriteResult(a.c, a.n, "return", "written", a.c._ssl,
                              a.c._socket, probe, "try"),
                  WriteResult(_disconnect(a.c), a.n, "raise", "error",
                              a.c._ssl, a.c._socket, probe, "try")}
            : a \in _connection(m) }

\* APNsConnection.write(string), check being CHECK_CLOSED_SOCKET. The set of
\* its possible results.
write(m, check) ==
    IF check
    THEN UNION { IF r.kind = "raise"
                 THEN {WriteResult(r.c, r.n, "raise", "error", 0,
                                   r.c._socket, "raised", "probe")}
                 ELSE IF ProbeFails(r.val)
                 THEN {WriteResult(_disconnect(r.c), r.n, "raise", "closed",
                                   0, r.c._socket, r.val, "probe")}
                 ELSE WriteTry([c |-> r.c, n |-> r.n], r.val)
                 : r \in read(m, TRUE) }
    ELSE WriteTry(m, "off")

\* ------------------------------------------------------------ APNs facade

\* An accessor that constructs a client on every access.
AccessorAlwaysNew(f, cs, role) ==
    [f |-> Len(cs) + 1, cs |-> Append(cs, NewConnection(role)), fresh |-> TRUE]

\* The body shared by APNs.feedback_server and APNs.gateway_server: f is the
\* cached field, cs the instances constructed so far.
Accessor(f, cs, role) ==
    IF f = None
    THEN [f |-> Len(cs) + 1, cs |-> Append(cs, NewConnection(role)),
          fresh |-> TRUE]
    ELSE [f |-> f, cs |-> cs, fresh |-> FALSE]

feedback_server(f, cs) == Accessor(f, cs, "feedback")

gateway_server(f, cs) == Accessor(f, cs, "gateway")

\* The record of a call's outcome.
Outcome(op, inst, kind, val, used, fresh, held, probe, stage) ==
    [op |-> op, inst |-> inst, kind |-> kind, val |-> val, used |-> used,
     fresh |-> fresh, held |-> held, probe |-> probe, stage |-> stage]

NoCall == Outcome("none", 0, "return", "none", 0, FALSE, 0, "off", "none")

\* What prev keeps of an outcome.
Summary(o) ==
    [op |-> o.op, inst |-> o.inst, kind |-> o.kind, val |-> o.val,
     stage |-> o.stage]

\* A call ends with outcome o.
Returns(o) == last' = o /\ prev' = Summary(last)

\* apns.feedback_server
AccessFeedback ==
    LET r == feedback_server(_feedback_connection, conn)
    IN /\ Len(r.cs) <= MaxInst
       /\ _feedback_connection' = r.f
       /\ conn' = r.cs
       /\ first' = IF first.feedback = None
                   THEN [first EXCEPT !.feedback = r.f] ELSE first
       /\ Returns(Outcome("feedback_server", r.f, "return", "instance", 0,
                          r.fresh, 0, "off", "none"))
       /\ UNCHANGED <<_gateway_connection, nsock, CHECK_CLOSED_SOCKET>>
       /\ UNCHANGED <<feedVars, payVars, codecVars>>

\* apns.gateway_server
AccessGateway ==
    LET r == gateway_server(_gateway_connection, conn)
    IN /\ Len(r.cs) <= MaxInst
       /\ _gateway_connection' = r.f
       /\ conn' = r.cs
       /\ first' = IF first.gateway = None
                   THEN [first EXCEPT !.gateway = r.f] ELSE first
       /\ Returns(Outcome("gateway_server", r.f, "return", "instance", 0,
                          r.fresh, 0, "off", "none"))
       /\ UNCHANGED <<_feedback_connection, nsock, CHECK_CLOSED_SOCKET>>
       /\ UNCHANGED <<feedVars, payVars, codecVars>>

\* ---------------------------------------------- APNsConnection (actions)

\* conn[i].read(n, timeout) for a constructed instance i.
Read(i, timeout) ==
    \E r \in read([c |-> conn[i], n |-> nsock], timeout) :
        /\ r.n <= MaxSockets
        /\ conn' = [conn EXCEPT ![i] = r.c]
        /\ nsock' = r.n
        /\ Returns(Outcome(IF timeout THEN "readT" ELSE "read", i, r.kind,
                           r.val, r.used, r.used > nsock, r.held,
                           "off", "none"))
        /\ UNCHANGED <<facadeVars, CHECK_CLOSED_SOCKET, feedVars, payVars,
                       codecVars>>

\* conn[i].write(string) for a constructed instance i.
Write(i) ==
    \E r \in write([c |-> conn[i], n |-> nsock], CHECK_CLOSED_SOCKET) :
        /\ r.n <= MaxSockets
        /\ conn' = [conn EXCEPT ![i] = r.c]
        /\ nsock' = r.n
        /\ Returns(Outcome("write", i, r.kind, r.val, r.used,
                           r.used > nsock, r.held, r.probe, r.stage))
        /\ UNCHANGED <<facadeVars, CHECK_CLOSED_SOCKET, feedVars, payVars,
                       codecVars>>

\* GatewayConnection.send_notification(token_hex, payload) on a gateway
\* instance i: self.write of the frame _get_notification builds (the frame
\* itself is modelled under SpecPayload).
SendNotification(i) ==
    /\ conn[i].role = "gateway"
    /\ \E r \in write([c |-> conn[i], n |-> nsock], CHECK_CLOSED_SOCKET) :
        /\ r.n <= MaxSockets
        /\ conn' = [conn EXCEPT ![i] = r.c]
        /\ nsock' = r.n
        /\ Returns(Outcome("send_notification", i, r.kind, r.val, r.used,
                           r.used > nsock, r.held, r.probe, r.stage))
        /\ UNCHANGED <<facadeVars, CHECK_CLOSED_SOCKET, feedVars, payVars,
                       codecVars>>

\* ----------------------------------------------------- FeedbackConnection

BUF_SIZE == 4096

\* The wire form of one feedback record: timestamp:4 | tokenLen:2 | token.
RecordBytes(r) ==
    packed_uint_big_endian(r.time) \o packed_ushort_big_endian(Len(r.token))
    \o r.token

RECURSIVE StreamBytes(_)
StreamBytes(rs) ==
    IF rs = <<>> THEN <<>> ELSE RecordBytes(rs[1]) \o StreamBytes(Tail(rs))

\* What the peer sends on a connection before it closes it.
Wire == StreamBytes(recs) \o frag

\* The state items() is left in: its position, its buffer, what it yielded.
ItemsState(p, b, o) == [pc |-> p, buff |-> b, out |-> o]

\* A _chunks that reads again after an empty chunk.
NextChunkReadsOn(b, d, o) == ItemsState("read", b, o)

\* The end of one pass of the for loop of items(): _chunks resumes after
\* its yield and stops when the chunk was empty, else reads again.
NextChunk(b, d, o) ==
    IF d = <<>> THEN ItemsState("done", b, o) ELSE ItemsState("read", b, o)

\* The while loop of items() (lines 295-310) up to its next yield or its
\* exit: at a yield the buffer still holds the record yielded.
Drain(b, d, o) ==
    IF Len(b) > 6
    THEN LET token_length == unpacked_ushort_big_endian(Slice(b, 4, 6))
             bytes_to_read == 6 + token_length
         IN IF Len(b) >= bytes_to_read
            THEN ItemsState("yield", b,
                     Append(o, <<b2a_hex(Slice(b, 6, bytes_to_read)),
                                 utcfromtimestamp(
                                     unpacked_uint_big_endian(Slice(b, 0, 4)))>>))
            ELSE NextChunk(b, d, o)
    ELSE NextChunk(b, d, o)

\* The body of the for loop of items() (lines 284-295) on a chunk.
OnChunk(b, chunk, o) ==
    LET b1 == b \o chunk
    IN IF b1 = <<>> THEN ItemsState("done", b1, o)
       ELSE IF Len(b1) < 6 THEN ItemsState("done", b1, o)
       ELSE Drain(b1, chunk, o)

\* A resumption that leaves the record yielded in the buffer.
AfterYieldKeepsRecord(b, d, o) == Drain(b, d, o)

\* Resuming items() after its yield (line 306): the record is removed from
\* the buffer and the while loop goes on.
AfterYield(b, d, o) ==
    LET token_length == unpacked_ushort_big_endian(Slice(b, 4, 6))
    IN Drain(Drop(b, 6 + token_length), d, o)

\* feedback.items(): a new generator (any earlier one is finished).
Items ==
    /\ pc \in {"none", "done", "raised"}
    /\ pc' = "read"
    /\ buff' = <<>>
    /\ data' = <<>>
    /\ out' = <<>>
    /\ got' = <<>>
    /\ Returns(Outcome("items", 1, "return", "generator", 0, FALSE,
                       conn[1]._socket, "off", "none"))
    /\ UNCHANGED <<facadeVars, conn, nsock, CHECK_CLOSED_SOCKET, recs, frag,
                   pos, payVars, codecVars>>

\* The chunks a read of the connection can return: a new connection is
\* served the stream from its start; the peer closes once all is sent.
\* p is the number of bytes the connection has delivered before the read.
Chunks(p, val) ==
    IF val = "data"
    THEN {SubSeq(Wire, p + 1, p + k) : k \in 1..Min(BUF_SIZE, Len(Wire) - p)}
    ELSE IF val = "empty" /\ p = Len(Wire) THEN {<<>>}
    ELSE {}

\* items() inside _chunks at data = self.read(BUF_SIZE) (line 272), run to
\* the next yield of items(), to its end or to the error the read raises.
ItemsRead ==
    /\ pc = "read"
    /\ \E r \in read([c |-> conn[1], n |-> nsock], FALSE) :
        LET p == IF r.used > nsock THEN 0 ELSE pos
        IN /\ r.n <= MaxSockets
           /\ conn' = [conn EXCEPT ![1] = r.c]
           /\ nsock' = r.n
           /\ Returns(Outcome("read", 1, r.kind, r.val, r.used,
                              r.used > nsock, r.held, "off", "none"))
           /\ IF r.kind = "raise"
              THEN /\ pc' = "raised"
                   /\ pos' = p
                   /\ UNCHANGED <<buff, data, out, got>>
              ELSE \E chunk \in Chunks(p, r.val) :
                     LET st == OnChunk(buff, chunk, out)
                     IN /\ pos' = p + Len(chunk)
                        /\ data' = chunk
                        /\ got' = got \o chunk
                        /\ pc' = st.pc
                        /\ buff' = st.buff
                        /\ out' = st.out
           /\ UNCHANGED <<facadeVars, CHECK_CLOSED_SOCKET, recs, frag,
                          payVars, codecVars>>

\* next() on items() suspended at its yield (line 303).
ItemsResume ==
    /\ pc = "yield"
    /\ LET st == AfterYield(buff, data, out)
       IN /\ pc' = st.pc
          /\ buff' = st.buff
          /\ out' = st.out
    /\ UNCHANGED <<facadeVars, conn, nsock, CHECK_CLOSED_SOCKET, last, prev,
                   recs, frag, pos, data, got, payVars, codecVars>>

\* ---------------------------------------------------------------- Payload

MAX_PAYLOAD_LENGTH == 256

\* Python values: strings are sequences of code points, a dict is the
\* sequence of its <<key, value>> pairs (keys distinct), in insertion order.
PyNone == [t |-> "none", s |-> <<>>, n |-> 0, kv |-> <<>>, items |-> <<>>]
PyStr(s) == [t |-> "str", s |-> s, n |-> 0, kv |-> <<>>, items |-> <<>>]
PyInt(n) == [t |-> "int", s |-> <<>>, n |-> n, kv |-> <<>>, items |-> <<>>]
PyDict(kv) == [t |-> "dict", s |-> <<>>, n |-> 0, kv |-> kv, items |-> <<>>]
PyList(items) ==
    [t |-> "list", s |-> <<>>, n |-> 0, kv |-> <<>>, items |-> items]

\* PayloadAlert.__init__
PayloadAlert(body, action_loc_key, loc_key, loc_args, launch_image) ==
    [t |-> "PayloadAlert", body |-> body, action_loc_key |-> action_loc_key,
     loc_key |-> loc_key, loc_args |-> loc_args,
     launch_image |-> launch_image]

\* Python's truth of a value, as the if statements of dict() test it.
Truthy(v) ==
    CASE v.t = "none" -> FALSE
      [] v.t = "str" -> v.s # <<>>
      [] v.t = "int" -> v.n # 0
      [] v.t = "dict" -> v.kv # <<>>
      [] v.t = "list" -> v.items # <<>>
      [] OTHER -> TRUE

\* The keys the code uses, as code points.
K_aps == <<97, 112, 115>>
K_alert == <<97, 108, 101, 114, 116>>
K_sound == <<115, 111, 117, 110, 100>>
K_badge == <<98, 97, 100, 103, 101>>
K_body == <<98, 111, 100, 121>>
K_action_loc_key == <<97, 99, 116, 105, 111, 110, 45, 108, 111, 99, 45, 107, 101, 121>>
K_loc_key == <<108, 111, 99, 45, 107, 101, 121>>
K_loc_args == <<108, 111, 99, 45, 97, 114, 103, 115>>
K_launch_image == <<108, 97, 117, 110, 99, 104, 45, 105, 109, 97, 103, 101>>

HasKey(kv, k) == \E i \in 1..Len(kv) : kv[i][1] = k

Lookup(kv, k) == kv[CHOOSE i \in 1..Len(kv) : kv[i][1] = k][2]

\* d[k] = v
SetItem(kv, k, v) ==
    IF HasKey(kv, k)
    THEN [i \in 1..Len(kv) |-> IF kv[i][1] = k THEN <<k, v>> ELSE kv[i]]
    ELSE Append(kv, <<k, v>>)

\* d[k] = v when cond else d
SetIf(cond, kv, k, v) == IF cond THEN SetItem(kv, k, v) ELSE kv

\* dict.update(other)
RECURSIVE Update(_, _)
Update(kv, other) ==
    IF other = <<>> THEN kv
    ELSE Update(SetItem(kv, other[1][1], other[1][2]), Tail(other))

\* PayloadAlert.dict
PayloadAlertDict(a) ==
    LET d0 == <<<<K_body, a.body>>>>
        d1 == SetIf(Truthy(a.action_loc_key), d0, K_action_loc_key,
                    a.action_loc_key)
        d2 == SetIf(Truthy(a.loc_key), d1, K_loc_key, a.loc_key)
        d3 == SetIf(Truthy(a.loc_args), d2, K_loc_args, a.loc_args)
        d4 == SetIf(Truthy(a.launch_image), d3, K_launch_image,
                    a.launch_image)
    IN PyDict(d4)

\* int(): of an integer, or of a string of decimal digits.
RECURSIVE DigitsValue(_, _)
DigitsValue(s, acc) ==
    IF s = <<>> THEN acc
    ELSE DigitsValue(Tail(s), acc * 10 + (s[1] - 48))

int(v) == IF v.t = "int" THEN v.n ELSE DigitsValue(v.s, 0)

\* Notification fields whose badge is set only when it is truthy.
ApsDictBadgeIfTruthy(pl) ==
    LET d1 == SetIf(Truthy(pl.alert), <<>>, K_alert,
                    IF pl.alert.t = "PayloadAlert"
                    THEN PayloadAlertDict(pl.alert) ELSE pl.alert)
        d2 == SetIf(Truthy(pl.sound), d1, K_sound, pl.sound)
        d3 == SetIf(Truthy(pl.badge), d2, K_badge, PyInt(int(pl.badge)))
    IN d3

\* The notification fields of Payload.dict (lines 227-238).
ApsDict(pl) ==
    LET d1 == SetIf(Truthy(pl.alert), <<>>, K_alert,
                    IF pl.alert.t = "PayloadAlert"
                    THEN PayloadAlertDict(pl.alert) ELSE pl.alert)
        d2 == SetIf(Truthy(pl.sound), d1, K_sound, pl.sound)
        d3 == SetIf(pl.badge.t # "none", d2, K_badge, PyInt(int(pl.badge)))
    IN d3

\* Payload.dict
PayloadDict(pl) == Update(<<<<K_aps, PyDict(ApsDict(pl))>>>>, pl.custom)

\* The decimal digits of a natural number.
RECURSIVE Digits(_)
Digits(n) ==
    IF n < 10 THEN <<48 + n>> ELSE Digits(n \div 10) \o <<48 + (n % 10)>>

\* json.dumps of an integer.
EncodeInt(n) == IF n < 0 THEN <<45>> \o Digits(0 - n) ELSE Digits(n)

\* One character of a JSON string, with ensure_ascii=False, as the UTF-8
\* bytes of what json.dumps writes for it.
EncodeChar(ch) ==
    CASE ch = 34 -> <<92, 34>>
      [] ch = 92 -> <<92, 92>>
      [] ch = 10 -> <<92, 110>>
      [] ch = 13 -> <<92, 114>>
      [] ch = 9 -> <<92, 116>>
      [] ch = 8 -> <<92, 98>>
      [] ch = 12 -> <<92, 102>>
      [] ch < 32 /\ ch \notin {8, 9, 10, 12, 13} ->
            <<92, 117, 48, 48, HexDigits[(ch \div 16) + 1],
              HexDigits[(ch % 16) + 1]>>
      [] ch >= 32 /\ ch < 128 /\ ch \notin {34, 92} -> <<ch>>
      [] ch >= 128 /\ ch < 2048 -> <<192 + (ch \div 64), 128 + (ch % 64)>>
      [] OTHER -> <<224 + (ch \div 4096), 128 + ((ch \div 64) % 64),
                    128 + (ch % 64)>>

RECURSIVE EncodeChars(_)
EncodeChars(s) ==
    IF s = <<>> THEN <<>>
    ELSE IF Len(s) = 1 THEN EncodeChar(s[1])
    ELSE LET h == Len(s) \div 2
         IN EncodeChars(SubSeq(s, 1, h)) \o EncodeChars(SubSeq(s, h + 1, Len(s)))

EncodeString(s) == <<34>> \o EncodeChars(s) \o <<34>>

\* json.dumps(v, separators=(',', ':'), ensure_ascii=False).encode('utf-8')
RECURSIVE EncodeValue(_), EncodePairs(_), EncodeItems(_)
EncodeValue(v) ==
    CASE v.t = "str" -> EncodeString(v.s)
      [] v.t = "int" -> EncodeInt(v.n)
      [] v.t = "dict" -> <<123>> \o EncodePairs(v.kv) \o <<125>>
      [] v.t = "list" -> <<91>> \o EncodeItems(v.items) \o <<93>>
      [] OTHER -> <<110, 117, 108, 108>>

EncodePairs(kv) ==
    IF kv = <<>> THEN <<>>
    ELSE EncodeString(kv[1][1]) \o <<58>> \o EncodeValue(kv[1][2])
         \o (IF Len(kv) > 1 THEN <<44>> ELSE <<>>) \o EncodePairs(Tail(kv))

EncodeItems(items) ==
    IF items = <<>> THEN <<>>
    ELSE EncodeValue(items[1])
         \o (IF Len(items) > 1 THEN <<44>> ELSE <<>>)
         \o EncodeItems(Tail(items))

\* Payload.json
PayloadJson(pl) == EncodeValue(PyDict(PayloadDict(pl)))

\* A size check that rejects a payload of exactly the maximum length.
CheckSizeInclusive(pl) ==
    LET size == Len(PayloadJson(pl))
    IN IF size >= MAX_PAYLOAD_LENGTH
       THEN [raised |-> TRUE, size |-> size]
       ELSE [raised |-> FALSE, size |-> 0]

\* Payload._check_size: whether PayloadTooLargeError is raised, and the
\* size it carries.
_check_size(pl) ==
    LET size == Len(PayloadJson(pl))
    IN IF size > MAX_PAYLOAD_LENGTH
       THEN [raised |-> TRUE, size |-> size]
       ELSE [raised |-> FALSE, size |-> 0]

\* ------------------------------------------------------ GatewayConnection

\* GatewayConnection._get_notification
_get_notification(token_hex, pl) ==
    LET token_bin == a2b_hex(token_hex)
        token_length_bin == packed_ushort_big_endian(Len(token_bin))
        payload_json == PayloadJson(pl)
        payload_length_bin == packed_ushort_big_endian(Len(payload_json))
    IN <<0>> \o token_length_bin \o token_bin \o payload_length_bin
       \o payload_json

\* The arguments the payloads are built from.
Repeat(ch, n) == [i \in 1..n |-> ch]

Alerts ==
    {PyNone, PyStr(<<>>), PyStr(<<120, 34, 92, 233, 10, 8364, 1>>)}
    \cup {PyStr(Repeat(120, n)) : n \in {1, 200, 235, 236, 237, 400}}
    \cup {PayloadAlert(PyStr(<<104, 105>>), PyNone, PyNone, PyNone, PyNone),
          PayloadAlert(PyStr(Repeat(120, 180)), PyStr(<<>>),
                       PyStr(<<107>>), PyList(<<PyStr(<<97>>), PyStr(<<98>>)>>),
                       PyStr(<<105>>))}

Badges == {PyNone, PyInt(0), PyInt(12), PyStr(<<55>>)}

Sounds == {PyNone, PyStr(<<>>), PyStr(<<100, 105, 110, 103>>)}

Customs ==
    { <<>>,
      <<<<K_aps, PyInt(1)>>>>,
      <<<<<<107>>, PyStr(<<118>>)>>, <<K_aps, PyDict(<<>>)>>>>,
      <<<<K_alert, PyStr(<<122>>)>>, <<<<110>>, PyInt(-3)>>>> }

\* Hex tokens, each with the bytes it stands for: "", "0a", "00ff",
\* "AbCd" and the 32-byte token "01" * 32.
Tokens ==
    { [hex |-> <<>>, bytes |-> <<>>],
      [hex |-> <<48, 97>>, bytes |-> <<10>>],
      [hex |-> <<48, 48, 102, 102>>, bytes |-> <<0, 255>>],
      [hex |-> <<65, 98, 67, 100>>, bytes |-> <<171, 205>>],
      [hex |-> [i \in 1..64 |-> IF i % 2 = 1 THEN 48 ELSE 49],
       bytes |-> Repeat(1, 32)] }

NoFrame == [hex |-> <<>>, bytes |-> <<>>, frame |-> <<>>]

\* The arguments of a Payload that is not constructed yet.
Arguments(a, b, so, cu) ==
    [made |-> FALSE,
     pl |-> [alert |-> a, badge |-> b, sound |-> so, custom |-> cu],
     raised |-> FALSE, size |-> 0]

NoPayload == Arguments(PyNone, PyNone, PyNone, <<>>)

\* Payload(alert, badge, sound, custom) on the arguments chosen: the fields
\* are set, then _check_size raises or not.
NewPayload ==
    /\ ~payload.made
    /\ LET r == _check_size(payload.pl)
       IN payload' = [payload EXCEPT !.made = TRUE, !.raised = r.raised,
                                     !.size = r.size]
    /\ sent' = NoFrame
    /\ UNCHANGED <<facadeVars, conn, nsock, CHECK_CLOSED_SOCKET, last, prev,
                   feedVars, codecVars>>

\* gateway._get_notification(token_hex, payload) for a constructed payload.
GetNotification ==
    /\ payload.made
    /\ ~payload.raised
    /\ \E tk \in Tokens :
         sent' = [hex |-> tk.hex, bytes |-> tk.bytes,
                  frame |-> _get_notification(tk.hex, payload.pl)]
    /\ UNCHANGED <<facadeVars, conn, nsock, CHECK_CLOSED_SOCKET, last, prev,
                   feedVars, payload, codecVars>>

\* ------------------------------------------------------ the byte codecs

\* A number given to a codec: fmt is "H" (unsigned short) or "I" (unsigned
\* int), num the number as its halves; nothing packed yet.
CodecInput(fmt, hi, lo) ==
    [fmt |-> fmt, num |-> [hi |-> hi, lo |-> lo], bytes |-> <<>>,
     back |-> U32(0), done |-> FALSE]

NoCodec == CodecInput("", 0, 0)

\* The halves the unsigned ints are made of: the ends of the range, and
\* the values around each byte's and each sign's boundary.
Halves ==
    {0, 1, 2, 127, 128, 255, 256, 257, 32767, 32768, 65279, 65280, 65534,
     65535}

\* Every unsigned short, and the unsigned ints made of two of the halves
\* (0 and 4294967295 among them).
CodecInputs ==
    {CodecInput("H", 0, n) : n \in 0..65535}
    \cup {CodecInput("I", hi, lo) : hi \in Halves, lo \in Halves}

\* APNs.unpacked_ushort_big_endian(APNs.packed_ushort_big_endian(num))
PackUshort ==
    /\ codec.fmt = "H"
    /\ ~codec.done
    /\ LET bytes == packed_ushort_big_endian(codec.num.lo)
       IN codec' = [codec EXCEPT
                       !.bytes = bytes,
                       !.back = U32(unpacked_ushort_big_endian(bytes)),
                       !.done = TRUE]
    /\ UNCHANGED <<facadeVars, conn, nsock, CHECK_CLOSED_SOCKET, last, prev,
                   feedVars, payVars>>

\* APNs.unpacked_uint_big_endian(APNs.packed_uint_big_endian(num))
PackUint ==
    /\ codec.fmt = "I"
    /\ ~codec.done
    /\ LET bytes == packed_uint_big_endian(codec.num)
       IN codec' = [codec EXCEPT
                       !.bytes = bytes,
                       !.back = unpacked_uint_big_endian(bytes),
                       !.done = TRUE]
    /\ UNCHANGED <<facadeVars, conn, nsock, CHECK_CLOSED_SOCKET, last, prev,
                   feedVars, payVars>>

\* -------------------------------------------------------- specifications

CodecIdle == codec = NoCodec

FeedIdle ==
    /\ recs = <<>> /\ frag = <<>> /\ pos = 0 /\ buff = <<>>
    /\ data = <<>> /\ pc = "none" /\ out = <<>> /\ got = <<>>

PayIdle == payload = NoPayload /\ sent = NoFrame

\* A fresh APNs facade: no client constructed, nothing connected.
InitConn ==
    /\ _feedback_connection = None
    /\ _gateway_connection = None
    /\ first = [gateway |-> None, feedback |-> None]
    /\ conn = <<>>
    /\ nsock = 0
    /\ CHECK_CLOSED_SOCKET \in BOOLEAN
    /\ last = NoCall
    /\ prev = Summary(NoCall)
    /\ FeedIdle
    /\ PayIdle
    /\ CodecIdle

NextConn ==
    \/ AccessFeedback
    \/ AccessGateway
    \/ \E i \in 1..Len(conn) : \E t \in BOOLEAN : Read(i, t)
    \/ \E i \in 1..Len(conn) : Write(i)
    \/ \E i \in 1..Len(conn) : SendNotification(i)

SpecConn == InitConn /\ [][NextConn]_vars

\* The feedback records of the streams: record i has timestamp
\* 1000000000 + i and a token, empty or MaxTokenLen bytes long, whose bytes
\* are all i.
FeedbackRecord(i, len) ==
    [time |-> U32(1000000000 + i), token |-> [j \in 1..len |-> i]]

RecordLists ==
    UNION { { [i \in 1..n |-> FeedbackRecord(i, lens[i])]
              : lens \in [1..n -> {0, MaxTokenLen}] }
            : n \in 0..MaxRecords }

\* The incomplete fragments: the proper prefixes of one more record.
Fragments ==
    LET enc == RecordBytes(FeedbackRecord(MaxRecords + 1, MaxTokenLen))
    IN {SubSeq(enc, 1, k) : k \in 0..(Len(enc) - 1)}

\* A FeedbackConnection constructed on its own, and a peer with a stream.
InitFeedback ==
    /\ _feedback_connection = None
    /\ _gateway_connection = None
    /\ first = [gateway |-> None, feedback |-> None]
    /\ conn = <<NewConnection("feedback")>>
    /\ nsock = 0
    /\ CHECK_CLOSED_SOCKET = FALSE
    /\ last = NoCall
    /\ prev = Summary(NoCall)
    /\ recs \in RecordLists
    /\ frag \in Fragments
    /\ pos = 0 /\ buff = <<>> /\ data = <<>> /\ pc = "none" /\ out = <<>>
    /\ got = <<>>
    /\ PayIdle
    /\ CodecIdle

NextFeedback ==
    \/ Items
    \/ ItemsRead
    \/ ItemsResume

SpecFeedback == InitFeedback /\ [][NextFeedback]_vars

\* The arguments of a Payload, not constructed yet; a GatewayConnection
\* that is never connected.
InitPayload ==
    /\ _feedback_connection = None
    /\ _gateway_connection = None
    /\ first = [gateway |-> None, feedback |-> None]
    /\ conn = <<NewConnection("gateway")>>
    /\ nsock = 0
    /\ CHECK_CLOSED_SOCKET = FALSE
    /\ last = NoCall
    /\ prev = Summary(NoCall)
    /\ FeedIdle
    /\ payload \in {Arguments(a, b, so, cu) :
                      a \in Alerts, b \in Badges, so \in Sounds,
                      cu \in Customs}
    /\ sent = NoFrame
    /\ CodecIdle

NextPayload ==
    \/ NewPayload
    \/ GetNotification

SpecPayload == InitPayload /\ [][NextPayload]_vars

\* A number to pack; no client, no payload.
InitCodec ==
    /\ _feedback_connection = None
    /\ _gateway_connection = None
    /\ first = [gateway |-> None, feedback |-> None]
    /\ conn = <<>>
    /\ nsock = 0
    /\ CHECK_CLOSED_SOCKET = FALSE
    /\ last = NoCall
    /\ prev = Summary(NoCall)
    /\ FeedIdle
    /\ PayIdle
    /\ codec \in CodecInputs

NextCodec ==
    \/ PackUshort
    \/ PackUint

SpecCodec == InitCodec /\ [][NextCodec]_vars

\* ---------------------------------------------- connection properties

IsWrite(o) == o.op \in {"write", "send_notification"}

\* Both handles of connection i are reset.
Disconnected(i) == conn[i]._socket = None /\ conn[i]._ssl = None

\* Connection i has been torn down: handles reset, and the socket it held
\* (if it held one) closed.
TornDown(i, held) == Disconnected(i) /\ held \notin conn[i].open

\* The write proper failed: the error came out of the try block of write
\* (establishing the connection there, or the write on the socket).
WriteFailed(o) ==
    IsWrite(o) /\ o.kind = "raise" /\ o.val = "error" /\ o.stage = "try"

C4_FailureSurfacesAfterTeardown ==
    ( /\ (last.op = "read" \/ IsWrite(last))
      /\ last.kind = "raise"
      /\ last.val = "error" ) => TornDown(last.inst, last.held)

\* C5: every access to an accessor returns the instance its first access
\* returned, and the facade constructs at most one client per role.
C5_AccessorsCached ==
    /\ \A r \in Roles :
         Cardinality({i \in 1..Len(conn) : conn[i].role = r}) <= 1
    /\ last.op = "gateway_server" => last.inst = first.gateway
    /\ last.op = "feedback_server" => last.inst = first.feedback
    /\ first.gateway # None => _gateway_connection = first.gateway
    /\ first.feedback # None => _feedback_connection = first.feedback

C5_Witness ==
    /\ last.op = "gateway_server"
    /\ ~last.fresh
    /\ prev.op = "feedback_server"
    /\ prev.val = "instance"
    /\ Len(conn) = 2

\* C6: a connection owns at most one open socket at any time, and a call
\* that raised because establishing the connection failed leaves the
\* connection Disconnected.
C6_AtMostOneOpenSocket ==
    /\ \A i \in 1..Len(conn) : Cardinality(conn[i].open) <= 1
    /\ ( /\ last.op \in {"read", "readT", "write", "send_notification"}
         /\ last.kind = "raise"
         /\ last.val = "error"
         /\ last.used = 0 ) => Disconnected(last.inst)

\* C10 as stated: the closed-connection error is raised only when the probe
\* read returned data sent by the peer.
C10_ClosedOnlyOnPeerData ==
    (IsWrite(last) /\ last.val = "closed") => last.probe = "data"

\* C10 as amended: with the probe enabled, write raises the closed-connection
\* error exactly when the probe read returned anything but the timed-out
\* sentinel (peer data, an empty read, or the no-data sentinel 0); when the
\* probe timed out the write is performed; whenever the error is raised the
\* connection has been torn down.
C10_ClosedUnlessProbeTimedOut ==
    (IsWrite(last) /\ CHECK_CLOSED_SOCKET) =>
        /\ last.val = "closed" <=> last.probe \in {"data", "empty", "nodata"}
        /\ last.probe = "timedout" =>
              (last.used # 0 /\ last.val \in {"written", "error"})
        /\ last.val = "closed" => TornDown(last.inst, last.held)

C10_Witness ==
    /\ IsWrite(last)
    /\ CHECK_CLOSED_SOCKET
    /\ last.val = "closed"
    /\ last.probe = "empty"
    /\ last.held # 0

\* Connection i holds a TLS handle.
Connected(i) == conn[i]._ssl # None

IsIO(o) == o.op \in {"read", "readT", "write", "send_notification"}

\* C11: a read with a timeout issued on a Connected connection does not
\* raise, and when its timeout expires it returns the timed-out sentinel and
\* leaves the connection Connected on the socket it held: the read was
\* performed on that socket, no socket is closed and none is created.
C11_TimeoutKeepsConnection ==
    [][ (last'.op = "readT" /\ Connected(last'.inst)) =>
          /\ last'.kind = "return"
          /\ last'.val = "timedout" =>
                /\ last'.used = conn[last'.inst]._ssl
                /\ conn'[last'.inst]._ssl = conn[last'.inst]._ssl
                /\ conn'[last'.inst]._socket = conn[last'.inst]._socket
                /\ conn'[last'.inst].open = conn[last'.inst].open
                /\ nsock' = nsock ]_vars

C11_Witness ==
    /\ last.op = "readT"
    /\ last.val = "timedout"
    /\ ~last.fresh
    /\ prev.inst = last.inst
    /\ prev.kind = "return"
    /\ conn[last.inst]._ssl = last.used
    /\ last.used \in conn[last.inst].open

\* C12: a read with a timeout never raises, whatever the state of the
\* connection: an I/O error other than the expiry of the timeout, the
\* failure to establish the connection included, gives the sentinel 0.
C12_TimeoutReadNeverRaises ==
    last.op = "readT" => (last.kind = "return" /\ last.val # "error")

\* C18: an accessor that constructs a client creates no socket and leaves
\* the client without handles; a socket is created only inside a read or a
\* write issued on a connection that is not Connected; a read or a write
\* issued on a Connected connection that succeeds was performed on the
\* socket the connection held, which it still holds, and created none.
C18_LazyConnectAndReuse ==
    [][ /\ last'.op \in {"feedback_server", "gateway_server"} =>
             /\ nsock' = nsock
             /\ last'.fresh =>
                   /\ conn'[last'.inst]._socket = None
                   /\ conn'[last'.inst]._ssl = None
                   /\ conn'[last'.inst].open = {}
        /\ nsock' # nsock => (IsIO(last') /\ ~Connected(last'.inst))
        /\ ( /\ IsIO(last')
             /\ Connected(last'.inst)
             /\ last'.kind = "return"
             /\ last'.used # 0 ) =>
               /\ last'.used = conn[last'.inst]._ssl
               /\ conn'[last'.inst]._ssl = conn[last'.inst]._ssl
               /\ nsock' = nsock ]_vars

C18_Witness ==
    /\ last.op = "read"
    /\ last.val = "data"
    /\ ~last.fresh
    /\ prev.inst = last.inst
    /\ prev.op = "send_notification"
    /\ prev.val = "written"
    /\ conn[last.inst]._ssl = last.used
    /\ nsock = 1

\* C19: a read without timeout or a write that was performed on the socket
\* and returned was performed with no timeout set on the socket.
C19_BlockingIOHasNoTimeout ==
    ( /\ (last.op = "read" \/ IsWrite(last))
      /\ last.kind = "return"
      /\ last.used # 0 ) => ~conn[last.inst].tmo

\* ------------------------------------------------ feedback properties

\* The pairs the records rs are to be yielded as.
Expected(rs) ==
    [i \in 1..Len(rs) |->
        <<b2a_hex(rs[i].token), utcfromtimestamp(rs[i].time)>>]

\* C1: a stream of N complete records, however it is split into chunks
\* and then closed, is decoded to exactly its N records in order.
C1_AllRecordsWhateverTheChunks ==
    (pc = "done" /\ frag = <<>>) => out = Expected(recs)

\* C2: complete records followed by an incomplete fragment and the close
\* of the stream are decoded to exactly the complete records, and the
\* sequence ends.
C2_FragmentDiscarded ==
    (pc = "done" /\ frag # <<>>) => out = Expected(recs)

\* C13: when an items() whose sequence ended on an empty read is followed
\* by a new items(), the first read of the new iteration that is performed
\* on a socket is performed on a socket opened during that read.
C13_NewIterationReconnects ==
    [][ ( /\ last.op = "items"
          /\ prev.op = "read"
          /\ prev.val = "empty"
          /\ last'.op = "read"
          /\ last'.used # 0 ) => last'.fresh ]_vars

\* C14: the read that returns no data ends the sequence, whatever the
\* buffer holds, without another record being yielded; and once the
\* sequence has ended the next call is a new items(), never a read.
C14_EmptyReadEndsSequence ==
    [][ /\ (last'.op = "read" /\ last'.val = "empty") =>
              (pc' = "done" /\ out' = out)
        /\ pc = "done" => last'.op = "items" ]_vars

C14_Witness ==
    /\ last.op = "read"
    /\ last.val = "empty"
    /\ pc = "done"
    /\ Len(buff) > 6
    /\ out # <<>>

\* The pairs of the complete records at the start of a byte string.
RECURSIVE Decoded(_)
Decoded(bytes) ==
    IF Len(bytes) < 6 THEN <<>>
    ELSE LET n == (bytes[5] * 256) + bytes[6]
         IN IF Len(bytes) < 6 + n THEN <<>>
            ELSE << <<b2a_hex(SubSeq(bytes, 7, 6 + n)),
                      utcfromtimestamp([hi |-> (bytes[1] * 256) + bytes[2],
                                        lo |-> (bytes[3] * 256) + bytes[4]])>> >>
                 \o Decoded(Drop(bytes, 6 + n))

IsPrefix(s, t) == Len(s) <= Len(t) /\ \A i \in 1..Len(s) : s[i] = t[i]

\* C17: at every point of an iteration the pairs yielded so far are a prefix
\* of the records encoded in the bytes the iteration has received so far.
C17_EmittedIsPrefixOfReceived == IsPrefix(out, Decoded(got))

C17_Witness ==
    /\ Len(out) = 2
    /\ out = Expected(recs)
    /\ Len(recs[1].token) # Len(recs[2].token)
    /\ Len(data) < Len(got)
    /\ Len(data) < 6

\* The buffer starts with a complete record.
StartsWithRecord(b) ==
    /\ Len(b) >= 6
    /\ Len(b) >= 6 + ((b[5] * 256) + b[6])

\* C20: items() is about to read, or has ended, only with a buffer that
\* does not start with a complete record.
C20_ReadsOnlyWithoutCompleteRecord ==
    pc \in {"read", "done"} => ~StartsWithRecord(buff)

\* ------------------------------------------------- payload properties

\* C7: constructing a Payload raises PayloadTooLargeError exactly when the
\* encoded length is greater than 256 (256 itself is accepted), and the
\* error's size is the encoded length.
C7_TooLargeAbove256 ==
    payload.made =>
        /\ payload.raised <=> Len(PayloadJson(payload.pl)) > 256
        /\ payload.raised => payload.size = Len(PayloadJson(payload.pl))

C7_Witness ==
    /\ payload.made
    /\ ~payload.raised
    /\ Len(PayloadJson(payload.pl)) = 256

\* The bytes a..b of f that f has, and byte i of f (-1 past its end).
Bytes(f, a, b) == [i \in 1..(Min(b, Len(f)) - a + 1) |-> f[a + i - 1]]

ByteAt(f, i) == IF i \in 1..Len(f) THEN f[i] ELSE -1

\* A frame read field by field: command:1 | tokenLen:2 | token | payloadLen:2
\* | payload, the lengths most significant byte first.
ParseFrame(f) ==
    LET tlen == ByteAt(f, 2) * 256 + ByteAt(f, 3)
        plen == ByteAt(f, 4 + tlen) * 256 + ByteAt(f, 5 + tlen)
    IN [command |-> ByteAt(f, 1),
        tokenLen |-> tlen,
        token |-> Bytes(f, 4, 3 + tlen),
        payloadLen |-> plen,
        payload |-> Bytes(f, 6 + tlen, 5 + tlen + plen),
        rest |-> Bytes(f, 6 + tlen + plen, Len(f))]

\* C8: the frame of a token and a payload of at most 256 bytes is command
\* byte 0, the big-endian token length, the token's bytes, the big-endian
\* payload length and the payload's encoding, with nothing left over.
C8_FrameRoundTrips ==
    sent.frame # <<>> =>
        LET p == ParseFrame(sent.frame)
        IN /\ p.command = 0
           /\ p.tokenLen = Len(sent.bytes)
           /\ p.token = sent.bytes
           /\ p.payloadLen = Len(PayloadJson(payload.pl))
           /\ p.payload = PayloadJson(payload.pl)
           /\ p.rest = <<>>
           /\ Len(sent.frame) = 5 + Len(sent.bytes) + Len(p.payload)

C8_Witness ==
    /\ sent.frame # <<>>
    /\ Len(sent.bytes) = 32
    /\ Len(PayloadJson(payload.pl)) = 256

\* C9: whatever the custom mapping, the top-level "aps" entry of dict() is
\* the notification-fields object built from alert, sound and badge.
C9_CustomNeverReplacesAps ==
    payload.made =>
        /\ HasKey(PayloadDict(payload.pl), K_aps)
        /\ Lookup(PayloadDict(payload.pl), K_aps)
             = PyDict(ApsDict(payload.pl))

\* A value is present and non-empty.
NonEmpty(v) == v.t # "none" /\ ~(v.t = "str" /\ v.s = <<>>)

\* C16: the notification fields have the key alert exactly when alert is
\* present and non-empty, sound exactly when sound is present and non-empty,
\* badge exactly when badge is not None, and no other key; the badge is an
\* integer, 0 for a badge of 0.
C16_ApsKeysFollowArguments ==
    payload.made =>
        LET pl == payload.pl
            d == ApsDict(pl)
        IN /\ HasKey(d, K_alert) <=> NonEmpty(pl.alert)
           /\ HasKey(d, K_sound) <=> NonEmpty(pl.sound)
           /\ HasKey(d, K_badge) <=> pl.badge.t # "none"
           /\ HasKey(d, K_badge) => Lookup(d, K_badge).t = "int"
           /\ pl.badge = PyInt(0) => Lookup(d, K_badge) = PyInt(0)
           /\ \A i \in 1..Len(d) : d[i][1] \in {K_alert, K_sound, K_badge}
           /\ \A i, j \in 1..Len(d) : d[i][1] = d[j][1] => i = j

C16_Witness ==
    /\ payload.made
    /\ payload.pl.badge = PyInt(0)
    /\ payload.pl.alert = PyStr(<<>>)
    /\ payload.pl.sound = PyNone
    /\ ApsDict(payload.pl) = <<<<K_badge, PyInt(0)>>>>

\* ---------------------------------------------------- codec properties

\* C15: unpacking the packed form of an unsigned short, or of an unsigned
\* int, gives the number back; the packed form is 2, respectively 4, bytes
\* with the most significant byte first.
C15_CodecsRoundTrip ==
    codec.done =>
        /\ codec.back = codec.num
        /\ \A i \in 1..Len(codec.bytes) : codec.bytes[i] \in 0..255
        /\ codec.fmt = "H" =>
              /\ Len(codec.bytes) = 2
              /\ (codec.bytes[1] * 256) + codec.bytes[2] = codec.num.lo
        /\ codec.fmt = "I" =>
              /\ Len(codec.bytes) = 4
              /\ (codec.bytes[1] * 256) + codec.bytes[2] = codec.num.hi
              /\ (codec.bytes[3] * 256) + codec.bytes[4] = codec.num.lo

C15_Witness ==
    /\ codec.done
    /\ codec.fmt = "I"
    /\ codec.num = [hi |-> 65535, lo |-> 65535]
    /\ codec.bytes = <<255, 255, 255, 255>>

====
